---- MODULE Spec2Model ----
(***************************************************************************)
(* Model of codefever/ahocorasick (src/ahocorasick.go): a double-array     *)
(* Aho-Corasick automaton.  A Builder collects (word, value) pairs, Build  *)
(* sorts the words, packs the trie into base/check with a free-list slot   *)
(* allocator, wires the suffix links and returns a Searcher over the same  *)
(* arrays.                                                                 *)
(*                                                                         *)
(* Go slices are 0-indexed; they are modelled as sequences, and Get/Set    *)
(* shift the index by one.  A byte is an integer in 0..255.  A value       *)
(* (interface{}) is an integer: Nil is Go's nil, BoolFalse the boolean     *)
(* false that Search returns on one of its miss paths, and the values the  *)
(* callers add are positive.  A Go panic is a message in the "panic"       *)
(* field of the record an operator returns.                                *)
(***************************************************************************)
EXTENDS Integers, Sequences, FiniteSets, TLC

\* ------------------------------------------------------------- bounds
\* Number of Add calls on one Builder.
MaxWords == 2
\* Length of the byte strings handed to Search, PrefixSearch and Cover.
MaxTextLen == 3
\* Number of Build calls on one Builder (SpecRebuild only).
MaxBuilds == 5

\* ---------------------------------------------------- program constants
blockSize == 256
Nil == 0
BoolFalse == -1

\* The entryState that is the list head keeps the index -1 of entryState.init.
headEntry == -1

\* ------------------------------------------------------ slices, strings
Get(a, i) == a[i + 1]
Set(a, i, v) == [a EXCEPT ![i + 1] = v]
Last(a) == a[Len(a)]
Repeat(n, v) == [i \in 1..n |-> v]
Take(a, n) == [i \in 1..n |-> a[i]]

RECURSIVE AllSeqs(_, _)
AllSeqs(S, n) ==
    IF n = 0 THEN {<<>>}
    ELSE LET shorter == AllSeqs(S, n - 1)
         IN  shorter \cup {Append(u, c) : u \in {x \in shorter : Len(x) = n - 1}, c \in S}

\* Go's string comparison: bytewise lexicographic, a proper prefix is smaller.
RECURSIVE StrLessFrom(_, _, _)
StrLessFrom(u, v, k) ==
    IF k > Len(v) THEN FALSE
    ELSE IF k > Len(u) THEN TRUE
    ELSE IF u[k] # v[k] THEN u[k] < v[k]
    ELSE StrLessFrom(u, v, k + 1)

StrLess(u, v) == StrLessFrom(u, v, 1)

RECURSIVE InsertSorted(_, _)
InsertSorted(ws, w) ==
    IF ws = <<>> THEN <<w>>
    ELSE IF StrLess(w, ws[1]) THEN <<w>> \o ws
    ELSE <<ws[1]>> \o InsertSorted(Tail(ws), w)

RECURSIVE SortStrings(_)
SortStrings(ws) ==
    IF ws = <<>> THEN <<>> ELSE InsertSorted(SortStrings(Tail(ws)), ws[1])

\* ------------------------------------------------------------- Builder
\* NewBuilder: empty slices, a head entry linked to itself.  cap is the
\* capacity of the backing arrays of base, check and suffixLink (they grow in
\* lockstep); shared says that these backing arrays are still the ones the
\* last returned Searcher holds, and seen is what that Searcher's arrays held
\* when an append moved the Builder to new backing arrays.
NewBuilder ==
    [words |-> <<>>, wordValues |-> <<>>,
     base |-> <<>>, check |-> <<>>, suffixLink |-> <<>>, values |-> <<>>,
     used |-> <<>>, nxt |-> (headEntry :> headEntry), prv |-> (headEntry :> headEntry),
     cap |-> 0, shared |-> FALSE, heldLen |-> 0,
     seen |-> [base |-> <<>>, check |-> <<>>, suffixLink |-> <<>>],
     panic |-> ""]

Raise(b, msg) == [b EXCEPT !.panic = msg]

\* append's growth of a full backing array of capacity c (Go runtime,
\* growslice for 8-byte elements: doubling below 256 elements, then
\* c + (c + 768) / 4, rounded up to the allocator's size class).
SizeClassElems == {512, 848, 1280, 1792, 2560, 3408, 5120}
NextCap(c) ==
    IF c = 0 THEN 1
    ELSE IF c < 256 THEN 2 * c
    ELSE LET want == c + ((c + 768) \div 4)
             fit == {k \in SizeClassElems : k >= want}
         IN  IF fit = {} THEN want
             ELSE CHOOSE k \in fit : \A j \in fit : k <= j

RECURSIVE GrowCap(_, _)
GrowCap(c, n) == IF c >= n THEN c ELSE GrowCap(NextCap(c), n)

\* extendBlocks: append blockSize slots (base 0, check -1, suffixLink 0) and
\* link one fresh entry per slot before the head, i.e. at the tail.
extendBlocks(b) ==
    LET start == Len(b.base)
        n     == start + blockSize
        tail  == b.prv[headEntry]
        moved == b.cap < n
        nxt1  == [i \in headEntry..(n - 1) |->
                    IF i = tail THEN start
                    ELSE IF i >= start THEN (IF i = n - 1 THEN headEntry ELSE i + 1)
                    ELSE b.nxt[i]]
        prv1  == [i \in headEntry..(n - 1) |->
                    IF i = headEntry THEN n - 1
                    ELSE IF i = start THEN tail
                    ELSE IF i > start THEN i - 1
                    ELSE b.prv[i]]
    IN  [b EXCEPT
            !.base = b.base \o Repeat(blockSize, 0),
            !.check = b.check \o Repeat(blockSize, -1),
            !.suffixLink = b.suffixLink \o Repeat(blockSize, 0),
            !.used = b.used \o Repeat(blockSize, FALSE),
            !.nxt = nxt1,
            !.prv = prv1,
            !.cap = GrowCap(b.cap, n),
            !.seen = IF b.shared /\ moved
                     THEN [base |-> Take(b.base, b.heldLen),
                           check |-> Take(b.check, b.heldLen),
                           suffixLink |-> Take(b.suffixLink, b.heldLen)]
                     ELSE b.seen,
            !.shared = b.shared /\ ~moved]

\* entryState.unlink on entry e: two assignments, in order.
unlink(b, e) ==
    LET prv1 == [b.prv EXCEPT ![b.nxt[e]] = b.prv[e]]
        nxt1 == [b.nxt EXCEPT ![prv1[e]] = b.nxt[e]]
    IN  [b EXCEPT !.prv = prv1, !.nxt = nxt1]

\* getCharacter: the byte of word i at depth j, 0 past its end; -1 stands
\* for the panic on a byte 0 inside the word.
getCharacter(b, i, j) ==
    IF j < Len(b.words[i + 1])
    THEN LET c == b.words[i + 1][j + 1] IN IF c = 0 THEN -1 ELSE c
    ELSE 0

\* A variant of the label scan that opens a run for every word, also when
\* the byte is the one of the run before; C17 must tell it from scanLabels.
RECURSIVE scanLabelsNoMerge(_, _, _, _, _, _)
scanLabelsNoMerge(b, i, end, depth, labels, bs) ==
    IF i >= end THEN [labels |-> labels, bs |-> Append(bs, end), panic |-> ""]
    ELSE LET c == getCharacter(b, i, depth)
         IN  IF c = -1
             THEN [labels |-> labels, bs |-> bs, panic |-> "Word contains '\\0'"]
             ELSE IF labels # <<>> /\ Last(labels) > c
             THEN [labels |-> labels, bs |-> bs, panic |-> "Words not sorted?"]
             ELSE scanLabelsNoMerge(b, i + 1, end, depth, Append(labels, c), Append(bs, i))

\* The label scan that opens buildLevel and each step of buildSuffixLinks:
\* the distinct bytes at this depth of words[begin..end) and where each run
\* starts.
RECURSIVE scanLabels(_, _, _, _, _, _)
scanLabels(b, i, end, depth, labels, bs) ==
    IF i >= end THEN [labels |-> labels, bs |-> Append(bs, end), panic |-> ""]
    ELSE LET c == getCharacter(b, i, depth)
         IN  IF c = -1
             THEN [labels |-> labels, bs |-> bs, panic |-> "Word contains '\\0'"]
             ELSE IF labels = <<>> \/ Last(labels) # c
             THEN IF labels # <<>> /\ Last(labels) > c
                  THEN [labels |-> labels, bs |-> bs, panic |-> "Words not sorted?"]
                  ELSE scanLabels(b, i + 1, end, depth, Append(labels, c), Append(bs, i))
             ELSE scanLabels(b, i + 1, end, depth, labels, bs)

\* A variant of impl that takes the first entry of the free list whose
\* largest label is inside the arrays, without the test of the used bits of
\* the label slots; C16 must tell it from implWalk.
RECURSIVE implWalkBaseOnly(_, _, _)
implWalkBaseOnly(b, labels, es) ==
    IF es = headEntry THEN -1
    ELSE IF Get(b.used, es) \/ es < 0 THEN -2
    ELSE IF es + Last(labels) >= Len(b.used) THEN -1
    ELSE es

\* impl inside findNextPosition: walk the free list from entry es to the
\* head and return the first entry index where every label fits, -1 when the
\* walk ends without one, -2 for the panic "invalid entry but in links".
RECURSIVE implWalk(_, _, _)
implWalk(b, labels, es) ==
    IF es = headEntry THEN -1
    ELSE IF Get(b.used, es) \/ es < 0 THEN -2
    ELSE IF es + Last(labels) >= Len(b.used) THEN -1
    ELSE IF \A k \in 1..Len(labels) : ~Get(b.used, es + labels[k]) THEN es
    ELSE implWalk(b, labels, b.nxt[es])

\* The loop of findNextPosition that moves lastEntry back over the entries
\* at or above atLeastIndex.  backStep is one test and one step of the loop;
\* once the test fails it leaves lastEntry as it is, so the loop's result is
\* backStep repeated at least as often as the loop runs.  The loop visits an
\* entry once, so n = number of entries is enough; backSteps splits n in two
\* halves to keep the evaluation shallow.
backStep(b, lastEntry, atLeastIndex) ==
    IF lastEntry # headEntry /\ lastEntry >= atLeastIndex
    THEN b.prv[lastEntry]
    ELSE lastEntry

RECURSIVE backSteps(_, _, _, _)
backSteps(b, lastEntry, atLeastIndex, n) ==
    IF n = 0 THEN lastEntry
    ELSE IF n = 1 THEN backStep(b, lastEntry, atLeastIndex)
    ELSE LET half == backSteps(b, lastEntry, atLeastIndex, n \div 2)
         IN  IF half = headEntry THEN headEntry
             ELSE backSteps(b, half, atLeastIndex, n - (n \div 2))

backUp(b, lastEntry, atLeastIndex) ==
    backSteps(b, lastEntry, atLeastIndex, Len(b.used))

\* The closing loops of findNextPosition: mark and unlink every p + l, then p.
RECURSIVE lockLabels(_, _, _, _)
lockLabels(b, labels, k, p) ==
    IF k > Len(labels) THEN b
    ELSE LET nc == p + labels[k]
         IN  lockLabels(unlink([b EXCEPT !.used = Set(b.used, nc, TRUE)], nc),
                        labels, k + 1, p)

lockSlots(b, labels, p) ==
    LET b1 == lockLabels(b, labels, 1, p)
    IN  unlink([b1 EXCEPT !.used = Set(b1.used, p, TRUE)], p)

\* findNextPosition: the Builder after the call and the base p it returns.
\* An empty label list fails at labels[len(labels)-1].  fnpFound is the end
\* of the function once impl has returned p in its second pass, fnpSecond
\* the growth by one block and the restart of the walk, fnpFirst the test of
\* what impl returned in the first pass.
fnpFound(b, labels, p) ==
    IF p = -2 THEN [b |-> Raise(b, "invalid entry but in links"), p |-> -1]
    ELSE IF p < 0 THEN [b |-> Raise(b, "cannot find next pos?"), p |-> -1]
    ELSE [b |-> lockSlots(b, labels, p), p |-> p]

\* A variant of the second pass that restarts the walk at the first entry of
\* the new block, without moving lastEntry back; C14 must tell it from
\* fnpSecond.
fnpSecondFromNewBlock(b1, labels, lastEntry, atLeastIndex) ==
    fnpFound(b1, labels, implWalk(b1, labels, b1.nxt[lastEntry]))

fnpSecond(b1, labels, lastEntry, atLeastIndex) ==
    fnpFound(b1, labels, implWalk(b1, labels, b1.nxt[backUp(b1, lastEntry, atLeastIndex)]))

fnpFirst(b, labels, p) ==
    IF p = -2 THEN [b |-> Raise(b, "invalid entry but in links"), p |-> -1]
    ELSE IF p >= 0 THEN [b |-> lockSlots(b, labels, p), p |-> p]
    ELSE fnpSecond(extendBlocks(b), labels, b.prv[headEntry], Len(b.base) - Last(labels))

\* A variant that returns the first free entry for an empty label list
\* instead of reading its last label; C19 must tell it from
\* findNextPosition.
findNextPositionNoLabels(b, labels) ==
    IF labels = <<>> THEN [b |-> b, p |-> b.nxt[headEntry]]
    ELSE fnpFirst(b, labels, implWalk(b, labels, b.nxt[headEntry]))

findNextPosition(b, labels) ==
    IF labels = <<>> THEN [b |-> Raise(b, "index out of range"), p |-> -1]
    ELSE fnpFirst(b, labels, implWalk(b, labels, b.nxt[headEntry]))

\* "Lock states" in buildLevel: check[next + l] = state for every label.
RECURSIVE setChecks(_, _, _, _, _)
setChecks(check, labels, k, next, state) ==
    IF k > Len(labels) THEN check
    ELSE setChecks(Set(check, next + labels[k], state), labels, k + 1, next, state)

\* buildLevel and its "Go depth" loop over the labels.  levelScanned is
\* buildLevel after its label scan sc, levelPlaced after findNextPosition
\* has returned f.
RECURSIVE buildLevel(_, _, _, _, _)
RECURSIVE goDepth(_, _, _, _, _, _)
goDepth(b, labels, bs, k, next, depth) ==
    IF b.panic # "" \/ k > Len(labels) THEN b
    ELSE IF labels[k] = 0
    THEN goDepth([b EXCEPT !.base = Set(b.base, next + labels[k], Len(b.values)),
                           !.values = Append(b.values, Get(b.wordValues, bs[k]))],
                 labels, bs, k + 1, next, depth)
    ELSE goDepth(buildLevel(b, bs[k], bs[k + 1], depth + 1, next + labels[k]),
                 labels, bs, k + 1, next, depth)

levelPlaced(f, sc, depth, state) ==
    IF f.b.panic # "" THEN f.b
    ELSE goDepth([f.b EXCEPT !.base = Set(f.b.base, state, f.p),
                             !.check = setChecks(f.b.check, sc.labels, 1, f.p, state)],
                 sc.labels, sc.bs, 1, f.p, depth)

levelScanned(b, sc, depth, state) ==
    IF sc.panic # "" THEN Raise(b, sc.panic)
    ELSE levelPlaced(findNextPosition(b, sc.labels), sc, depth, state)

buildLevel(b, begin, end, depth, state) ==
    levelScanned(b, scanLabels(b, begin, end, depth, <<>>, <<>>), depth, state)

\* createSuffixLink: follow the parent's suffix chain to the first state with
\* a transition on c.  check[tmp] is read without a range test.
RECURSIVE linkFrom(_, _, _, _)
linkFrom(b, suffix, childState, c) ==
    LET tmp == Get(b.base, suffix) + c
    IN  IF tmp < 0 \/ tmp >= Len(b.check) THEN Raise(b, "index out of range")
        ELSE IF Get(b.check, tmp) = suffix
        THEN [b EXCEPT !.suffixLink = Set(b.suffixLink, childState, tmp)]
        ELSE IF suffix = 0 THEN b
        ELSE linkFrom(b, Get(b.suffixLink, suffix), childState, c)

\* A variant that looks for the transition on c at the root alone, not
\* along the suffix chain of the parent; C15 must tell it from
\* createSuffixLink.
createSuffixLinkFromRoot(b, state, childState, c) == linkFrom(b, 0, childState, c)

\* A variant that links the child to itself; C18 must tell it from
\* createSuffixLink.
createSuffixLinkToSelf(b, state, childState, c) ==
    [b EXCEPT !.suffixLink = Set(b.suffixLink, childState, childState)]

createSuffixLink(b, state, childState, c) ==
    linkFrom(b, Get(b.suffixLink, state), childState, c)

\* buildSuffixLinks: one queue per depth; r.b is the Builder, r.q the queue
\* for the next depth.  linkLabels is the loop over the labels of one queue
\* element sl, linkScanned the body of the loop over the queue after its
\* label scan sc.
RECURSIVE linkLabels(_, _, _, _, _)
linkLabels(r, sl, labels, bs, k) ==
    IF r.b.panic # "" \/ k > Len(labels) THEN r
    ELSE linkLabels(
            [b |-> IF sl.state # 0
                   THEN createSuffixLink(r.b, sl.state, Get(r.b.base, sl.state) + labels[k],
                                         labels[k])
                   ELSE r.b,
             q |-> IF labels[k] = 0 THEN r.q
                   ELSE Append(r.q, [state |-> Get(r.b.base, sl.state) + labels[k],
                                     begin |-> bs[k], end |-> bs[k + 1]])],
            sl, labels, bs, k + 1)

linkScanned(r, sl, sc) ==
    IF sc.panic # "" THEN [r EXCEPT !.b = Raise(r.b, sc.panic)]
    ELSE linkLabels(r, sl, sc.labels, sc.bs, 1)

RECURSIVE linkQueue(_, _, _, _)
linkQueue(r, q, k, depth) ==
    IF r.b.panic # "" \/ k > Len(q) THEN r
    ELSE linkQueue(linkScanned(r, q[k],
                               scanLabels(r.b, q[k].begin, q[k].end, depth, <<>>, <<>>)),
                   q, k + 1, depth)

RECURSIVE linkDepths(_, _)
linkDepths(r, depth) ==
    IF r.b.panic # "" \/ r.q = <<>> THEN r.b
    ELSE linkDepths(linkQueue([b |-> r.b, q |-> <<>>], r.q, 1, depth), depth + 1)

buildSuffixLinks(b) ==
    linkDepths([b |-> b, q |-> <<[state |-> 0, begin |-> 0, end |-> Len(b.words)]>>], 0)

\* The buildLevel calls a call makes for its labels other than 0, in order.
RECURSIVE childFrames(_, _, _, _, _)
childFrames(labels, bs, k, next, depth) ==
    IF k > Len(labels) THEN <<>>
    ELSE IF labels[k] = 0 THEN childFrames(labels, bs, k + 1, next, depth)
    ELSE <<[begin |-> bs[k], end |-> bs[k + 1], depth |-> depth + 1,
            state |-> next + labels[k]]>>
         \o childFrames(labels, bs, k + 1, next, depth)

\* "save value" for the label 0, which the sort puts first.
saveValue(b, labels, bs, next) ==
    IF labels[1] = 0
    THEN [b EXCEPT !.base = Set(b.base, next, Len(b.values)),
                   !.values = Append(b.values, Get(b.wordValues, bs[1]))]
    ELSE b

\* A variant of Add without the test for the empty word; C6 must tell it
\* from Add.
AddUnchecked(b, word, value) ==
    [b EXCEPT !.words = Append(b.words, word),
              !.wordValues = Append(b.wordValues, value)]

\* Add: panics on the empty word, else appends word and value.
Add(b, word, value) ==
    IF Len(word) = 0 THEN Raise(b, "Add empty word.")
    ELSE [b EXCEPT !.words = Append(b.words, word),
                   !.wordValues = Append(b.wordValues, value)]

\* sort.StringSlice(b.words).Sort(): the words alone are sorted.
sortWords(b) == [b EXCEPT !.words = SortStrings(b.words)]

\* Build, up to the return statement; linkBuilt is its last step.
linkBuilt(b) == IF b.panic # "" THEN b ELSE buildSuffixLinks(b)

Build(b) ==
    linkBuilt(buildLevel(extendBlocks([sortWords(b) EXCEPT !.values = <<Nil>>]),
                         0, Len(b.words), 0, 0))

\* The Searcher Build returns: the four slices of the Builder.
NewSearcher(b) ==
    [base |-> b.base, check |-> b.check, suffixLink |-> b.suffixLink, values |-> b.values]

NoSearcher == [base |-> <<>>, check |-> <<>>, suffixLink |-> <<>>, values |-> <<>>]

\* ------------------------------------------------------------ Searcher
\* Every operator below carries a field fail: a slice was indexed outside its
\* length (a Go run-time panic).

\* prefixSearch: walk word from the root; state -1 and ok FALSE when a byte
\* has no transition.
RECURSIVE prefixWalk(_, _, _, _)
prefixWalk(s, word, k, state) ==
    IF k > Len(word) THEN [state |-> state, ok |-> TRUE, fail |-> FALSE]
    ELSE IF state < 0 \/ state >= Len(s.base)
    THEN [state |-> -1, ok |-> FALSE, fail |-> TRUE]
    ELSE LET nextState == Get(s.base, state) + word[k]
         IN  IF nextState >= Len(s.check)
             THEN [state |-> -1, ok |-> FALSE, fail |-> FALSE]
             ELSE IF nextState < 0
             THEN [state |-> -1, ok |-> FALSE, fail |-> TRUE]
             ELSE IF Get(s.check, nextState) # state
             THEN [state |-> -1, ok |-> FALSE, fail |-> FALSE]
             ELSE prefixWalk(s, word, k + 1, nextState)

\* A variant of prefixSearch without the test nextState >= len(s.check), so
\* that check is read wherever base[state] + c points; C10 must tell it from
\* prefixSearch.
RECURSIVE prefixWalkUnguarded(_, _, _, _)
prefixWalkUnguarded(s, word, k, state) ==
    IF k > Len(word) THEN [state |-> state, ok |-> TRUE, fail |-> FALSE]
    ELSE LET nextState == Get(s.base, state) + word[k]
         IN  IF nextState < 0 \/ nextState >= Len(s.check)
             THEN [state |-> -1, ok |-> FALSE, fail |-> TRUE]
             ELSE IF Get(s.check, nextState) # state
             THEN [state |-> -1, ok |-> FALSE, fail |-> FALSE]
             ELSE prefixWalkUnguarded(s, word, k + 1, nextState)

prefixSearchUnguarded(s, word) == prefixWalkUnguarded(s, word, 1, 0)

prefixSearch(s, word) == prefixWalk(s, word, 1, 0)

\* Search: (matched, value).  The first miss path returns the boolean false
\* in the value slot, the second one nil.
Search(s, word) ==
    LET r == prefixSearch(s, word)
    IN  IF r.fail THEN [matched |-> FALSE, value |-> Nil, fail |-> TRUE]
        ELSE IF ~r.ok THEN [matched |-> FALSE, value |-> BoolFalse, fail |-> FALSE]
        ELSE IF r.state >= Len(s.base)
        THEN [matched |-> FALSE, value |-> Nil, fail |-> TRUE]
        ELSE LET nextState == Get(s.base, r.state)
             IN  IF nextState < 0
                 THEN [matched |-> FALSE, value |-> Nil, fail |-> TRUE]
                 ELSE IF nextState < Len(s.check) /\ Get(s.check, nextState) = r.state
                 THEN LET vi == Get(s.base, nextState)
                      IN  IF vi < 0 \/ vi >= Len(s.values)
                          THEN [matched |-> FALSE, value |-> Nil, fail |-> TRUE]
                          ELSE [matched |-> TRUE, value |-> Get(s.values, vi), fail |-> FALSE]
                 ELSE [matched |-> FALSE, value |-> Nil, fail |-> FALSE]

PrefixSearch(s, word) ==
    LET r == prefixSearch(s, word) IN [ok |-> r.ok, fail |-> r.fail]

\* Cover, first inner loop: advance state on byte c along the suffix links.
\* The loop's next step depends on the state alone, so a walk of more link
\* steps than there are slots (fuel) repeats a state and never ends: spin.
RECURSIVE advance(_, _, _, _)
advance(s, state, c, fuel) ==
    LET nextState == Get(s.base, state) + c
    IN  IF nextState < 0 THEN [state |-> state, fail |-> TRUE, spin |-> FALSE]
        ELSE IF nextState < Len(s.check) /\ Get(s.check, nextState) = state
        THEN [state |-> nextState, fail |-> FALSE, spin |-> FALSE]
        ELSE IF state = 0 THEN [state |-> 0, fail |-> FALSE, spin |-> FALSE]
        ELSE IF fuel = 0 THEN [state |-> state, fail |-> FALSE, spin |-> TRUE]
        ELSE advance(s, Get(s.suffixLink, state), c, fuel - 1)

\* A variant of Cover's second inner loop that looks at checkState alone and
\* does not follow its suffix links; C5 must tell it from emit.
emitDeepestOnly(s, checkState, acc) ==
    IF acc.fail \/ checkState \in acc.seen THEN acc
    ELSE LET endState == Get(s.base, checkState) + 0
         IN  IF endState < 0 \/ endState >= Len(s.check)
             THEN [acc EXCEPT !.fail = TRUE]
             ELSE IF Get(s.check, endState) = checkState
                     /\ Get(s.values, Get(s.base, endState)) # Nil
             THEN [acc EXCEPT !.seen = acc.seen \cup {checkState},
                              !.ret = Append(acc.ret, Get(s.values, Get(s.base, endState))),
                              !.idx = Append(acc.idx, Get(s.base, endState))]
             ELSE [acc EXCEPT !.seen = acc.seen \cup {checkState}]

\* A variant of the same loop that puts each value at the front of ret; C9
\* must tell it from emit.
RECURSIVE emitFront(_, _, _)
emitFront(s, checkState, acc) ==
    IF acc.fail \/ checkState \in acc.seen THEN acc
    ELSE LET endState == Get(s.base, checkState) + 0
         IN  IF endState < 0 \/ endState >= Len(s.check)
             THEN [acc EXCEPT !.fail = TRUE]
             ELSE IF Get(s.check, endState) = checkState
                     /\ Get(s.values, Get(s.base, endState)) # Nil
             THEN emitFront(s, Get(s.suffixLink, checkState),
                            [acc EXCEPT !.seen = acc.seen \cup {checkState},
                                        !.ret = <<Get(s.values, Get(s.base, endState))>> \o acc.ret,
                                        !.idx = <<Get(s.base, endState)>> \o acc.idx])
             ELSE emitFront(s, Get(s.suffixLink, checkState),
                            [acc EXCEPT !.seen = acc.seen \cup {checkState}])

\* Cover, second inner loop: from checkState along the suffix links to the
\* first state already seen; a state with a transition on 0 whose value is
\* not nil appends that value.  acc.idx is the values index of each append.
RECURSIVE emit(_, _, _)
emit(s, checkState, acc) ==
    IF acc.fail \/ checkState \in acc.seen THEN acc
    ELSE LET seen1 == acc.seen \cup {checkState}
             endState == Get(s.base, checkState) + 0
         IN  IF endState < 0 \/ endState >= Len(s.check)
             THEN [acc EXCEPT !.fail = TRUE]
             ELSE IF Get(s.check, endState) = checkState
             THEN LET vi == Get(s.base, endState)
                  IN  IF vi < 0 \/ vi >= Len(s.values)
                      THEN [acc EXCEPT !.fail = TRUE]
                      ELSE IF Get(s.values, vi) # Nil
                      THEN emit(s, Get(s.suffixLink, checkState),
                                [acc EXCEPT !.seen = seen1,
                                            !.ret = Append(acc.ret, Get(s.values, vi)),
                                            !.idx = Append(acc.idx, vi)])
                      ELSE emit(s, Get(s.suffixLink, checkState), [acc EXCEPT !.seen = seen1])
             ELSE emit(s, Get(s.suffixLink, checkState), [acc EXCEPT !.seen = seen1])

RECURSIVE coverFrom(_, _, _, _)
coverFrom(s, text, k, acc) ==
    IF acc.fail \/ acc.spin \/ k > Len(text) THEN acc
    ELSE LET a == advance(s, acc.state, text[k], Len(s.base))
         IN  IF a.fail \/ a.spin THEN [acc EXCEPT !.fail = a.fail, !.spin = a.spin]
             ELSE coverFrom(s, text, k + 1, emit(s, a.state, [acc EXCEPT !.state = a.state]))

Cover(s, text) ==
    coverFrom(s, text, 1,
              [ret |-> <<>>, idx |-> <<>>, state |-> 0, seen |-> {}, fail |-> FALSE,
               spin |-> FALSE])

\* One pass of Cover's loop over the bytes of text, for byte k: the first
\* inner loop, then the second.
coverStep(s, text, k, acc) ==
    IF acc.fail \/ acc.spin THEN acc
    ELSE LET a == advance(s, acc.state, text[k], Len(s.base))
         IN  IF a.fail \/ a.spin THEN [acc EXCEPT !.fail = a.fail, !.spin = a.spin]
             ELSE emit(s, a.state, [acc EXCEPT !.state = a.state])

\* ------------------------------------------------------------- inputs
\* The words offered to Add: prefixes and suffixes of one another, a word
\* and its extension by the byte 1, bytes above 127, the empty word and a
\* word holding the byte 0.
Words ==
    {<<1>>, <<2>>, <<1, 1>>, <<1, 2>>, <<2, 1>>, <<1, 255>>, <<1, 2, 251>>,
     <<>>, <<1, 0>>}

\* The n-th Add call passes the value n; nil is a value, too.
NilWords == {<<2>>}
AddInputs(n) ==
    {<<w, n>> : w \in Words} \cup {<<w, Nil>> : w \in NilWords}

\* The byte strings offered to Search, PrefixSearch and Cover.
TextBytes == {0, 1, 2}
Texts == AllSeqs(TextBytes, MaxTextLen) \cup Words \cup {Append(w, 0) : w \in Words}

\* The words offered to Add when a Builder is built more than once.
RebuildWords == {<<1>>, <<2>>, <<1, 2>>}

\* -------------------------------------------------------------- state
VARIABLES
    b,        \* the Builder
    phase,    \* "adding", "built" (Build returned), "panicked"
    s,        \* the Searcher the last Build returned, as returned
    old,      \* the Searcher of the Build before, as its arrays are now
    oldOrig,  \* the same Searcher as its arrays were when it was returned
    added,    \* the <<word, value>> pairs of the Add calls that returned
    builds,   \* the number of Build calls
    call,     \* the last call: operation, argument and what it returned
    run,      \* a Build taken one buildLevel call at a time: where it is
    rd        \* the parallel readers of s: each one's call and its locals

vars == <<b, phase, s, old, oldOrig, added, builds, call, run, rd>>

NoCall ==
    [op |-> "none", arg |-> <<>>, matched |-> FALSE, value |-> Nil,
     ret |-> <<>>, idx |-> <<>>, fail |-> FALSE, spin |-> FALSE]

\* No Build under way.  frames is the stack of buildLevel calls still to be
\* made (begin, end, depth, state), frame the call under way, labels and bs
\* its label scan, p what findNextPosition returned to it; usedBefore is the
\* used bit of every slot when findNextPosition was called, and clash says
\* that an assignment to base or check has hit a slot assigned before.
NoRun ==
    [pc |-> "idle", frames |-> <<>>,
     frame |-> [begin |-> 0, end |-> 0, depth |-> 0, state |-> 0],
     labels |-> <<>>, bs |-> <<>>, p |-> -1, usedBefore |-> <<>>, clash |-> FALSE]

\* The parallel readers and a reader that has made no call: acc holds the
\* locals of Cover (ret, state, seen), k the index of the next byte of arg.
NumReaders == 2
Readers == 1..NumReaders
CoverLocals ==
    [ret |-> <<>>, idx |-> <<>>, state |-> 0, seen |-> {}, fail |-> FALSE, spin |-> FALSE]
NoReader ==
    [pc |-> "idle", op |-> "none", arg |-> <<>>, k |-> 1, acc |-> CoverLocals,
     matched |-> FALSE, value |-> Nil]

Init ==
    /\ b = NewBuilder
    /\ phase = "adding"
    /\ s = NoSearcher
    /\ old = NoSearcher
    /\ oldOrig = NoSearcher
    /\ added = <<>>
    /\ builds = 0
    /\ call = NoCall
    /\ run = NoRun
    /\ rd = [r \in Readers |-> NoReader]

\* builder.Add(word, value) with word and value drawn from inputs.
AddFrom(inputs) ==
    /\ phase \in {"adding", "built"}
    /\ Len(b.words) < MaxWords
    /\ \E in \in inputs :
          LET r == Add(b, in[1], in[2])
          IN  /\ b' = r
              /\ phase' = IF r.panic # "" THEN "panicked" ELSE phase
              /\ added' = IF r.panic # "" THEN added ELSE Append(added, in)
              /\ call' = [NoCall EXCEPT !.op = "Add", !.arg = in[1], !.value = in[2]]
    /\ UNCHANGED <<s, old, oldOrig, builds, run, rd>>

\* What the Searcher returned by the Build before holds after a Build that
\* left the Builder as r: the Builder's arrays, cut to its length, as long as
\* no append has moved the Builder away from the backing arrays they share.
HeldView(r, held) ==
    IF r.shared
    THEN [base |-> Take(r.base, r.heldLen), check |-> Take(r.check, r.heldLen),
          suffixLink |-> Take(r.suffixLink, r.heldLen), values |-> held.values]
    ELSE [base |-> r.seen.base, check |-> r.seen.check,
          suffixLink |-> r.seen.suffixLink, values |-> held.values]

\* searcher := builder.Build(), where Build leaves the Builder as r.
BuildReturn(r) ==
    /\ b' = IF r.panic # "" THEN r
            ELSE [r EXCEPT !.shared = TRUE, !.heldLen = Len(r.base)]
    /\ phase' = IF r.panic # "" THEN "panicked" ELSE "built"
    /\ s' = IF r.panic # "" THEN NoSearcher ELSE NewSearcher(r)
    /\ old' = IF builds = 0 THEN NoSearcher ELSE HeldView(r, s)
    /\ oldOrig' = s
    /\ builds' = builds + 1
    /\ call' = [NoCall EXCEPT !.op = "Build"]
    /\ UNCHANGED <<added, run, rd>>

BuildStep == BuildReturn(Build(b))

AddCall == phase = "adding" /\ AddFrom(AddInputs(Len(b.words) + 1))

BuildCall == phase = "adding" /\ BuildStep

\* The queries run on the Searcher of the Build that has just returned; they
\* write nothing, so one query per behaviour reaches every result.
SearchCall ==
    /\ phase = "built" /\ call.op = "Build"
    /\ \E q \in Texts :
          LET r == Search(s, q)
          IN  call' = [NoCall EXCEPT !.op = "Search", !.arg = q, !.matched = r.matched,
                                     !.value = r.value, !.fail = r.fail]
    /\ UNCHANGED <<b, phase, s, old, oldOrig, added, builds, run, rd>>

PrefixSearchCall ==
    /\ phase = "built" /\ call.op = "Build"
    /\ \E q \in Texts :
          LET r == PrefixSearch(s, q)
          IN  call' = [NoCall EXCEPT !.op = "PrefixSearch", !.arg = q, !.matched = r.ok,
                                     !.fail = r.fail]
    /\ UNCHANGED <<b, phase, s, old, oldOrig, added, builds, run, rd>>

CoverCall ==
    /\ phase = "built" /\ call.op = "Build"
    /\ \E t \in Texts :
          LET r == Cover(s, t)
          IN  call' = [NoCall EXCEPT !.op = "Cover", !.arg = t, !.ret = r.ret,
                                     !.idx = r.idx, !.fail = r.fail, !.spin = r.spin]
    /\ UNCHANGED <<b, phase, s, old, oldOrig, added, builds, run, rd>>

Next == AddCall \/ BuildCall \/ SearchCall \/ PrefixSearchCall \/ CoverCall

Spec == Init /\ [][Next]_vars

\* One Builder built again and again, with Add calls in between.
AddLater == phase \in {"adding", "built"} /\ AddFrom({<<w, Len(b.words) + 1>> : w \in RebuildWords})

BuildLater == phase \in {"adding", "built"} /\ builds < MaxBuilds /\ BuildStep

NextRebuild == AddLater \/ BuildLater

SpecRebuild == Init /\ [][NextRebuild]_vars

\* Parallel readers of the Searcher of one Build.  Search and PrefixSearch
\* have no local that outlives a read of the arrays, so each is one step;
\* Cover is taken one text byte at a time, its locals kept per reader.
ReaderWords == {<<2>>, <<1, 2>>}
ReaderTexts == {<<2>>, <<1, 2>>, <<2, 0>>}

\* A variant in which the seen set is one map all Cover calls share; C11
\* must tell it from seenOf.
seenShared(readers, r) == UNION {readers[x].acc.seen : x \in Readers}

\* seen := make(map[int]struct{}): the map of reader r's own call.
seenOf(readers, r) == readers[r].acc.seen

AddReaderWord == phase = "adding" /\ AddFrom({<<w, Len(b.words) + 1>> : w \in ReaderWords})

ReaderSearch(r) ==
    /\ phase = "built" /\ rd[r].pc = "idle"
    /\ \E q \in ReaderTexts :
          LET res == Search(s, q)
          IN  rd' = [rd EXCEPT ![r] = [NoReader EXCEPT !.pc = "returned", !.op = "Search",
                                                       !.arg = q, !.matched = res.matched,
                                                       !.value = res.value]]
    /\ UNCHANGED <<b, phase, s, old, oldOrig, added, builds, call, run>>

ReaderPrefixSearch(r) ==
    /\ phase = "built" /\ rd[r].pc = "idle"
    /\ \E q \in ReaderTexts :
          rd' = [rd EXCEPT ![r] = [NoReader EXCEPT !.pc = "returned", !.op = "PrefixSearch",
                                                   !.arg = q,
                                                   !.matched = PrefixSearch(s, q).ok]]
    /\ UNCHANGED <<b, phase, s, old, oldOrig, added, builds, call, run>>

ReaderCoverBegin(r) ==
    /\ phase = "built" /\ rd[r].pc = "idle"
    /\ \E t \in ReaderTexts :
          rd' = [rd EXCEPT ![r] = [NoReader EXCEPT !.pc = "covering", !.op = "Cover",
                                                   !.arg = t]]
    /\ UNCHANGED <<b, phase, s, old, oldOrig, added, builds, call, run>>

ReaderCoverByte(r) ==
    /\ rd[r].pc = "covering" /\ rd[r].k <= Len(rd[r].arg)
    /\ rd' = [rd EXCEPT ![r].acc = coverStep(s, rd[r].arg, rd[r].k,
                                             [rd[r].acc EXCEPT !.seen = seenOf(rd, r)]),
                        ![r].k = rd[r].k + 1]
    /\ UNCHANGED <<b, phase, s, old, oldOrig, added, builds, call, run>>

ReaderCoverReturn(r) ==
    /\ rd[r].pc = "covering" /\ rd[r].k > Len(rd[r].arg)
    /\ rd' = [rd EXCEPT ![r].pc = "returned"]
    /\ UNCHANGED <<b, phase, s, old, oldOrig, added, builds, call, run>>

ReaderNext(r) ==
    \/ ReaderSearch(r)
    \/ ReaderPrefixSearch(r)
    \/ ReaderCoverBegin(r)
    \/ ReaderCoverByte(r)
    \/ ReaderCoverReturn(r)

NextReaders == AddReaderWord \/ BuildCall \/ \E r \in Readers : ReaderNext(r)

SpecReaders == Init /\ [][NextReaders]_vars

\* Build taken one buildLevel call at a time.  The recursion of buildLevel
\* is the stack run.frames: a call scans its labels and calls
\* findNextPosition (LevelAlloc), then assigns base and check, stores the
\* value of a terminal label and goes into its other labels in order
\* (LevelPlace), each of them to the end before the next.
AddBuildWord ==
    /\ phase = "adding" /\ run.pc = "idle"
    /\ AddFrom({<<w, Len(b.words) + 1>> : w \in Words})

\* Build up to its call of buildLevel.
BuildBegin ==
    /\ phase = "adding" /\ run.pc = "idle"
    /\ b' = extendBlocks([sortWords(b) EXCEPT !.values = <<Nil>>])
    /\ phase' = "building"
    /\ run' = [NoRun EXCEPT !.pc = "scan",
                            !.frames = <<[begin |-> 0, end |-> Len(b.words),
                                          depth |-> 0, state |-> 0]>>]
    /\ UNCHANGED <<s, old, oldOrig, added, builds, call, rd>>

\* buildLevel from its entry to the return of findNextPosition: fr is the
\* call, sc its label scan, f what findNextPosition returned.
AllocReturn(fr, sc, f) ==
    /\ b' = f.b
    /\ phase' = IF f.b.panic # "" THEN "panicked" ELSE "building"
    /\ run' = [run EXCEPT !.pc = "place", !.frames = Tail(run.frames), !.frame = fr,
                          !.labels = sc.labels, !.bs = sc.bs, !.p = f.p,
                          !.usedBefore = b.used]
    /\ UNCHANGED <<s, old, oldOrig, added, builds, call, rd>>

AllocScanned(fr, sc) ==
    AllocReturn(fr, sc, IF sc.panic # "" THEN [b |-> Raise(b, sc.panic), p |-> -1]
                        ELSE findNextPosition(b, sc.labels))

LevelAlloc ==
    /\ phase = "building" /\ run.pc = "scan"
    /\ AllocScanned(Head(run.frames),
                    scanLabels(b, Head(run.frames).begin, Head(run.frames).end,
                               Head(run.frames).depth, <<>>, <<>>))

\* buildLevel after findNextPosition: base[state] = next, the checks, the
\* value; the calls for the other labels go on the stack.
LevelPlace ==
    /\ phase = "building" /\ run.pc = "place"
    /\ b' = saveValue([b EXCEPT !.base = Set(b.base, run.frame.state, run.p),
                                !.check = setChecks(b.check, run.labels, 1, run.p,
                                                    run.frame.state)],
                      run.labels, run.bs, run.p)
    /\ run' = [run EXCEPT
                  !.frames = childFrames(run.labels, run.bs, 1, run.p, run.frame.depth)
                             \o run.frames,
                  !.pc = IF childFrames(run.labels, run.bs, 1, run.p, run.frame.depth)
                            \o run.frames = <<>>
                         THEN "link" ELSE "scan",
                  !.clash = \/ run.clash
                            \/ Get(b.base, run.frame.state) # 0
                            \/ \E k \in 1..Len(run.labels) :
                                  \/ Get(b.check, run.p + run.labels[k]) # -1
                                  \/ Get(b.base, run.p + run.labels[k]) # 0]
    /\ UNCHANGED <<phase, s, old, oldOrig, added, builds, call, rd>>

\* Build from buildSuffixLinks to its return.
LinkAll ==
    /\ phase = "building" /\ run.pc = "link"
    /\ BuildReturn(buildSuffixLinks(b))

NextBuild == AddBuildWord \/ BuildBegin \/ LevelAlloc \/ LevelPlace \/ LinkAll

SpecBuild == Init /\ [][NextBuild]_vars

\* --------------------------------------------- what the claims speak of
Range(f) == {f[k] : k \in DOMAIN f}

\* The patterns whose Add call returned.
AddedWords == {added[i][1] : i \in DOMAIN added}

\* The value passed by the earliest Add of pattern w.
EarliestValue(w) ==
    added[CHOOSE i \in DOMAIN added :
            /\ added[i][1] = w
            /\ \A j \in DOMAIN added : added[j][1] = w => i <= j][2]

ValidPattern(w) == w # <<>> /\ 0 \notin Range(w)

ValidDictionary == added # <<>> /\ \A w \in AddedWords : ValidPattern(w)

IsPrefix(q, w) == Len(q) <= Len(w) /\ \A k \in 1..Len(q) : q[k] = w[k]

IsProperSuffix(u, w) ==
    Len(u) < Len(w) /\ \A k \in 1..Len(u) : u[k] = w[Len(w) - Len(u) + k]

\* w occurs in t and its last byte is t[e].
EndsAt(w, t, e) ==
    e >= Len(w) /\ e <= Len(t) /\ \A k \in 1..Len(w) : t[e - Len(w) + k] = w[k]

Occurs(w, t) == \E e \in 1..Len(t) : EndsAt(w, t, e)

FirstEnd(w, t) == CHOOSE e \in 1..Len(t) : EndsAt(w, t, e) /\ \A f \in 1..(e - 1) : ~EndsAt(w, t, f)

\* S(t): the distinct added patterns that occur in t.
OccurringWords(t) == {w \in AddedWords : Occurs(w, t)}

\* The values index in the terminal slot of pattern w, 0 when w has none.
TermIdx(w) ==
    LET r == Search(s, w)
        t == Get(s.base, prefixSearch(s, w).state)
    IN  IF r.matched THEN Get(s.base, t) ELSE 0

\* The added pattern whose terminal slot holds values index k.
PatternAt(k) == CHOOSE w \in AddedWords : TermIdx(w) = k

IsQuery == call.op \in {"Search", "PrefixSearch", "Cover"}

\* ---------------------------------------------------------------- C1
\* C1: for every added pattern w of a built dictionary, Search(w) returns
\* (true, v) with v the value passed by the earliest Add of w, whatever the
\* order of the Add calls.
C1_SearchReturnsAddedValue ==
    (call.op = "Search" /\ call.arg \in AddedWords)
        => (call.matched /\ call.value = EarliestValue(call.arg))

\* ---------------------------------------------------------------- C2
\* C2: Build of a non-empty dictionary of valid patterns (non-empty, no byte
\* 0) runs to completion and returns a Searcher; no fatal abort is reached.
C2_BuildCompletes ==
    (call.op = "Build" /\ ValidDictionary) => (phase = "built" /\ b.panic = "")

\* ---------------------------------------------------------------- C3
\* C3: for any byte string q, the byte 0 included, PrefixSearch(q) is true
\* if and only if q is a prefix of some added pattern.
C3_PrefixSoundness ==
    call.op = "PrefixSearch"
        => (call.matched <=> \E w \in AddedWords : IsPrefix(call.arg, w))

\* ---------------------------------------------------------------- C4
\* C4: every value Cover(t) returns was added together with a pattern that
\* occurs as a substring of t.
C4_CoverSoundness ==
    call.op = "Cover"
        => \A k \in DOMAIN call.ret :
              \E i \in DOMAIN added :
                  added[i][2] = call.ret[k] /\ Occurs(added[i][1], call.arg)

\* ---------------------------------------------------------------- C5
\* C5 as stated: Cover(t) returns exactly one value per distinct added
\* pattern that occurs in t.
C5_OneValuePerOccurringWord ==
    call.op = "Cover"
        => /\ Len(call.ret) = Cardinality(OccurringWords(call.arg))
           /\ \A w \in OccurringWords(call.arg) : TermIdx(w) \in Range(call.idx)

\* C5 amended: Cover(t) returns exactly one entry per distinct added pattern
\* that occurs in t and whose entry in the value table is not nil, namely
\* that entry; the occurring patterns whose entry is nil are left out.
C5_OneValuePerNonNilOccurringWord ==
    call.op = "Cover"
        => LET S == {w \in OccurringWords(call.arg) : Get(s.values, TermIdx(w)) # Nil}
           IN  /\ Len(call.ret) = Cardinality(S)
               /\ Range(call.idx) = {TermIdx(w) : w \in S}
               /\ \A i, j \in DOMAIN call.idx : call.idx[i] = call.idx[j] => i = j
               /\ \A i \in DOMAIN call.ret : call.ret[i] = Get(s.values, call.idx[i])

\* A Cover call that reports a pattern and a proper suffix of it, one of them
\* occurring twice in the text, and skips no pattern.
C5_Witness ==
    /\ call.op = "Cover"
    /\ Len(call.ret) = 2
    /\ \E u, w \in OccurringWords(call.arg) : IsProperSuffix(u, w)
    /\ \E w \in OccurringWords(call.arg) :
          \E e, f \in 1..Len(call.arg) :
              e # f /\ EndsAt(w, call.arg, e) /\ EndsAt(w, call.arg, f)

\* ---------------------------------------------------------------- C6
\* C6 as stated: Add aborts, without appending, on a pattern that is empty
\* or holds the byte 0, so the word list never holds such a pattern.
C6_AddRejectsEmptyAndZero ==
    /\ \A i \in DOMAIN b.words : ValidPattern(b.words[i])
    /\ (call.op = "Add" /\ ~ValidPattern(call.arg)) => phase = "panicked"

\* C6 amended: Add aborts, without appending, exactly when the pattern is
\* empty, so the word list never holds an empty pattern; a pattern holding
\* the byte 0 is appended like any other, and Build never returns a Searcher
\* for a word list that holds one.
C6_AddRejectsEmptyOnly ==
    /\ \A i \in DOMAIN b.words : b.words[i] # <<>>
    /\ call.op = "Add"
          => /\ (call.arg = <<>>) <=> (phase = "panicked")
             /\ phase = "panicked" => b.panic = "Add empty word."
             /\ b.words = [i \in DOMAIN added |-> added[i][1]]
             /\ b.wordValues = [i \in DOMAIN added |-> added[i][2]]
             /\ call.arg # <<>> => added # <<>> /\ Last(added) = <<call.arg, call.value>>
    /\ phase = "built" => \A i \in DOMAIN b.words : 0 \notin Range(b.words[i])

\* An Add of the empty pattern that aborted after an Add of a pattern with
\* the byte 0 that was appended.
C6_Witness ==
    /\ call.op = "Add" /\ call.arg = <<>> /\ phase = "panicked"
    /\ \E i \in DOMAIN b.words : 0 \in Range(b.words[i])

\* ---------------------------------------------------------------- C7
\* C7: no later Add or Build on the Builder changes the arrays of a Searcher
\* that Build has returned, so its queries keep their results.
C7_SearcherStaysAsReturned ==
    /\ old = oldOrig
    /\ \A q \in Texts :
          /\ Search(old, q) = Search(oldOrig, q)
          /\ PrefixSearch(old, q) = PrefixSearch(oldOrig, q)

\* ---------------------------------------------------------------- C8
\* C8: for every q that is not an added pattern Search(q) returns
\* (false, none), the same on every miss path.
C8_MissReturnsFalseNone ==
    (call.op = "Search" /\ call.arg \notin AddedWords)
        => (~call.matched /\ call.value = Nil)

\* ---------------------------------------------------------------- C9
\* C9: Cover(t) lists the patterns by the end of their first occurrence in
\* t, and patterns whose first occurrences end at the same byte from the
\* longest to the shortest.
C9_CoverOrder ==
    call.op = "Cover"
        => \A i, j \in DOMAIN call.idx :
              i < j =>
                 LET u == PatternAt(call.idx[i])
                     w == PatternAt(call.idx[j])
                 IN  /\ Occurs(u, call.arg) /\ Occurs(w, call.arg)
                     /\ \/ FirstEnd(u, call.arg) < FirstEnd(w, call.arg)
                        \/ /\ FirstEnd(u, call.arg) = FirstEnd(w, call.arg)
                           /\ Len(u) > Len(w)

\* A Cover call that reports two patterns whose first occurrences end at the
\* same byte.
C9_Witness ==
    /\ call.op = "Cover"
    /\ Len(call.idx) = 2
    /\ FirstEnd(PatternAt(call.idx[1]), call.arg) = FirstEnd(PatternAt(call.idx[2]), call.arg)
    /\ Len(PatternAt(call.idx[1])) > Len(PatternAt(call.idx[2]))

\* --------------------------------------------------------------- C10
\* C10: on the Searcher of a successful Build no query indexes base, check,
\* suffixLink or values outside the slice, whatever the bytes of the input.
C10_QueriesStayInRange == IsQuery => ~call.fail

\* A Cover call on a text with the byte 0 and a byte above 127 that went
\* through a terminal slot and still returned a value.
C10_Witness ==
    /\ call.op = "Cover" /\ ~call.fail
    /\ 0 \in Range(call.arg)
    /\ \E k \in DOMAIN call.arg : call.arg[k] > 127
    /\ call.ret # <<>>

\* --------------------------------------------------------------- C11
\* C11: Search, PrefixSearch and Cover write none of the Searcher's arrays,
\* and under any interleaving of the calls of parallel readers every call
\* returns what it returns when it runs alone.
C11_ReadersAsAlone ==
    /\ phase = "built" => s = NewSearcher(b)
    /\ \A r \in Readers :
          rd[r].pc = "returned" =>
             /\ rd[r].op = "Search" =>
                   /\ rd[r].matched = Search(s, rd[r].arg).matched
                   /\ rd[r].value = Search(s, rd[r].arg).value
             /\ rd[r].op = "PrefixSearch" => rd[r].matched = PrefixSearch(s, rd[r].arg).ok
             /\ rd[r].op = "Cover" => rd[r].acc.ret = Cover(s, rd[r].arg).ret

\* A Cover call that has returned two values while another reader's Cover
\* call, begun before, is between two bytes of its text.
C11_Witness ==
    \E r, x \in Readers :
        /\ r # x
        /\ rd[r].pc = "returned" /\ rd[r].op = "Cover" /\ Len(rd[r].acc.ret) = 2
        /\ rd[x].pc = "covering" /\ rd[x].k = 2 /\ rd[x].acc.seen # {}

\* findNextPosition has just returned to buildLevel.
JustAllocated == phase = "building" /\ run.pc = "place"

\* --------------------------------------------------------------- C12
\* The entry after entry i in a free list that holds exactly the unused
\* slots in ascending order: nxt[i] is unused and above i, every slot in
\* between is used, and prv leads back to i.
LinkedToNextFree(bb, i) ==
    LET j == bb.nxt[i]
        upTo == IF j = headEntry THEN Len(bb.used) ELSE j
    IN  /\ j = headEntry \/ (j > i /\ ~Get(bb.used, j))
        /\ \A m \in (i + 1)..(upTo - 1) : Get(bb.used, m)
        /\ bb.prv[j] = i

FreeListExact(bb) ==
    /\ LinkedToNextFree(bb, headEntry)
    /\ \A i \in 0..(Len(bb.used) - 1) : ~Get(bb.used, i) => LinkedToNextFree(bb, i)

\* C12: after every call of findNextPosition the free list reachable from
\* headEntry holds exactly the unused slots, each once, in ascending order,
\* with next and prev consistent; the slots just allocated are used and out
\* of the list, and no later walk meets a used entry.
C12_FreeListHoldsUnusedSlots ==
    /\ JustAllocated =>
          /\ FreeListExact(b)
          /\ Get(b.used, run.p)
          /\ \A k \in 1..Len(run.labels) : Get(b.used, run.p + run.labels[k])
    /\ b.panic # "invalid entry but in links"

\* --------------------------------------------------------------- C13
\* C13: every base findNextPosition returns is at least 0 and leaves room
\* for the largest byte: base + 255 is inside the arrays when buildLevel
\* assigns it.
C13_BaseLeavesRoomForEveryByte ==
    JustAllocated => (run.p >= 0 /\ run.p + 255 < Len(b.base))

\* --------------------------------------------------------------- C14
\* Slot c was unused when findNextPosition was called (the slots of a block
\* added during the call are unused).
WasFree(c) == c >= Len(run.usedBefore) \/ ~Get(run.usedBefore, c)

\* c and every c + l were unused and lie inside the arrays as they are now.
Viable(c) ==
    /\ WasFree(c)
    /\ \A k \in 1..Len(run.labels) :
          c + run.labels[k] < Len(b.used) /\ WasFree(c + run.labels[k])

\* C14: the base findNextPosition returns is the smallest slot that was
\* unused together with every base + label, inside the capacity the arrays
\* have on return, also when the walk was restarted after growing by one
\* block; one block is always enough: the second pass never fails.
C14_FirstFit ==
    /\ JustAllocated =>
          /\ Viable(run.p)
          /\ \A c \in 0..(run.p - 1) : ~Viable(c)
          /\ Len(b.used) <= Len(run.usedBefore) + blockSize
    /\ b.panic # "cannot find next pos?"

\* findNextPosition has grown the arrays by one block and returned a base
\* below the old capacity, found after the restart of the walk.
C14_Witness ==
    /\ JustAllocated
    /\ Len(b.used) = Len(run.usedBefore) + blockSize
    /\ run.p > 0 /\ run.p < Len(run.usedBefore)

\* --------------------------------------------------------------- C16
\* C16: at every point of Build distinct trie nodes occupy distinct slots:
\* no assignment to check or base hits a slot assigned before, every slot n
\* with check[n] = p is base[p] + c for a byte c and is marked used, and the
\* root keeps slot 0 (check[0] = -1, base[0] = 0).
C16_NodesKeepTheirSlots ==
    run.pc # "idle" =>
       /\ ~run.clash
       /\ Get(b.check, 0) = -1 /\ Get(b.base, 0) = 0
       /\ \A n \in 0..(Len(b.check) - 1) :
             Get(b.check, n) # -1 =>
                /\ Get(b.check, n) >= 0 /\ Get(b.check, n) < Len(b.base)
                /\ n - Get(b.base, Get(b.check, n)) \in 0..255
                /\ Get(b.used, n)

\* A call of buildLevel has placed two labels next to slots that earlier
\* calls had taken, inside a trie of three levels or more.
C16_Witness ==
    /\ phase = "building" /\ run.pc \in {"scan", "link"}
    /\ Len(run.labels) = 2
    /\ run.frame.depth >= 1
    /\ \E n \in 0..(run.p - 1) : Get(b.check, n) # -1

\* Build has just returned a Searcher.
JustBuilt == call.op = "Build" /\ phase = "built"

\* The paths of the trie: the non-empty prefixes of the added patterns and,
\* for the terminal states, each pattern followed by the sentinel 0.
Paths ==
    UNION {{SubSeq(w, 1, n) : n \in 1..Len(w)} : w \in AddedWords}
        \cup {Append(w, 0) : w \in AddedWords}

\* The state the path leads to from the root.
StateOf(path) == prefixSearch(s, path).state

Suffix(path, k) == SubSeq(path, k, Len(path))

\* The state of the longest proper suffix of path that is a path, else the
\* root.
ExpectedLink(path) ==
    LET ks == {k \in 2..Len(path) : Suffix(path, k) \in Paths}
    IN  IF ks = {} THEN 0
        ELSE StateOf(Suffix(path, CHOOSE k \in ks : \A j \in ks : k <= j))

\* --------------------------------------------------------------- C15
\* C15: after a successful Build suffixLink[0] = 0 and the suffix link of
\* every other live state, terminal states included, is the state of the
\* longest proper suffix of its path that is a path of the trie, or the root.
C15_SuffixLinks ==
    JustBuilt =>
       /\ Get(s.suffixLink, 0) = 0
       /\ \A path \in Paths :
             /\ prefixSearch(s, path).ok
             /\ Get(s.suffixLink, StateOf(path)) = ExpectedLink(path)

\* A built trie in which a terminal state links to another terminal state
\* and a state of depth 2 links to a state that is not the root.
C15_Witness ==
    /\ JustBuilt
    /\ \E path \in Paths : Last(path) = 0 /\ Get(s.suffixLink, StateOf(path)) # 0
    /\ \E path \in Paths :
          Last(path) # 0 /\ Len(path) = 2 /\ Get(s.suffixLink, StateOf(path)) # 0

\* --------------------------------------------------------------- C17
\* The terminal slots: the slots reached by the label 0.
TerminalSlots ==
    {n \in 1..(Len(s.check) - 1) :
        Get(s.check, n) # -1 /\ n = Get(s.base, Get(s.check, n))}

\* C17: after Build the value table holds one entry per distinct pattern
\* and the unused entry 0, however often a pattern was added; each distinct
\* pattern has one terminal slot, and the bases of the terminal slots are
\* pairwise distinct indices from 1 to len(values) - 1.
C17_OneValuePerDistinctWord ==
    JustBuilt =>
       /\ Len(s.values) = 1 + Cardinality(AddedWords)
       /\ Cardinality(TerminalSlots) = Cardinality(AddedWords)
       /\ \A w \in AddedWords : StateOf(Append(w, 0)) \in TerminalSlots
       /\ \A n \in TerminalSlots : Get(s.base, n) \in 1..(Len(s.values) - 1)
       /\ \A n, m \in TerminalSlots : Get(s.base, n) = Get(s.base, m) => n = m

\* A Build over a pattern that was added more than once.
C17_Witness ==
    /\ JustBuilt
    /\ Cardinality(AddedWords) < Len(added)
    /\ Cardinality(TerminalSlots) >= 1

\* --------------------------------------------------------------- C18
\* C18: Cover terminates on every text: the suffix link of every live state
\* but the root is a strictly shallower state, so the first inner loop ends
\* after finitely many link steps.
C18_CoverTerminates ==
    /\ call.op = "Cover" => ~call.spin
    /\ JustBuilt =>
          \A path \in Paths :
             \/ Get(s.suffixLink, StateOf(path)) = 0
             \/ \E u \in Paths :
                   Len(u) < Len(path) /\ StateOf(u) = Get(s.suffixLink, StateOf(path))

\* A Cover call that reports two patterns of two bytes in a text of three:
\* the second was reached over a suffix link.
C18_Witness ==
    /\ call.op = "Cover" /\ ~call.spin
    /\ Len(call.arg) = 3 /\ Len(call.idx) = 2
    /\ Len(PatternAt(call.idx[1])) = 2 /\ Len(PatternAt(call.idx[2])) = 2

\* --------------------------------------------------------------- C19
\* C19: Build on a Builder without any added pattern aborts in
\* findNextPosition, which reads the last label of an empty label list; no
\* Searcher is returned.
C19_BuildNeedsAPattern ==
    (call.op = "Build" /\ b.words = <<>>) =>
       (phase = "panicked" /\ b.panic = "index out of range" /\ s = NoSearcher)

\* Build was called on a Builder without a pattern.
C19_Witness == call.op = "Build" /\ b.words = <<>> /\ added = <<>> /\ builds = 1

====
